---- MODULE Spec2Model ----
(***************************************************************************)
(* Model of the texture-search repository: the multi-source crawler and    *)
(* search app (src/app.py) and the single-source one                       *)
(* (src/texture_search_app.py).  Python strings are sequences of           *)
(* one-character strings; Python's None is the value None below.           *)
(***************************************************************************)
EXTENDS Integers, Sequences, FiniteSets, TLC

VARIABLES
  variant,      \* which program runs: "multi" (app.py) or "single" (texture_search_app.py)
  pc,           \* position of the process: "start", "crawl", "serving", "crashed"
  runs,         \* how many times the process has been started on the same textures.db
  schema,       \* TRUE once the table textures exists in the database file
  store,        \* the committed rows of table textures, in rowid order
  work,         \* the table as the crawler's connection sees it (uncommitted rows included)
  idx,          \* index in SOURCES of the next source to crawl
  total_added,  \* total_added of crawl_and_index_all_sources
  report,       \* per source: what the crawl printed for it, and what it did (bookkeeping)
  resp,         \* the last response served by this process
  log,          \* per source of this run: the page fetched and the storage fault injected
  prevlog       \* log of the previous run of the process, kept when that run was clean

vars == <<variant, pc, runs, schema, store, work, idx, total_added, report, resp, log, prevlog>>

-----------------------------------------------------------------------------
(* Bounds of the model *)

\* how many times the process is started on the same database file
MaxRuns == 2
\* a storage fault can hit the 1st .. MaxFaultPos-th INSERT of a source's loop
MaxFaultPos == 1
\* how many cards the large ambientCG page holds beyond the listing cap
Extra == 1

(* Program constants *)

\* LIMIT of both queries of home
LIMIT_MULTI == 50
\* LIMIT of the listing query of search
LIMIT_SINGLE == 20

-----------------------------------------------------------------------------
(* Python values *)

None == <<"None">>

\* str(x) as an f-string formats it
Str(x) == IF x = None THEN <<"N", "o", "n", "e">> ELSE x

\* truth value of a str or None
Truthy(x) == x # None /\ x # <<>>

\* str.startswith('http')
StartsWithHttp(u) == Len(u) >= 4 /\ SubSeq(u, 1, 4) = <<"h", "t", "t", "p">>

RECURSIVE LStrip(_)
LStrip(s) == IF s # <<>> /\ Head(s) = " " THEN LStrip(Tail(s)) ELSE s

RECURSIVE RStrip(_)
RStrip(s) == IF s # <<>> /\ s[Len(s)] = " " THEN RStrip(SubSeq(s, 1, Len(s) - 1)) ELSE s

\* get_text(strip=True) of an element with one text node
Strip(s) == RStrip(LStrip(s))

UpperCase == <<"A","B","C","D","E","F","G","H","I","J","K","L","M",
               "N","O","P","Q","R","S","T","U","V","W","X","Y","Z">>
LowerCase == <<"a","b","c","d","e","f","g","h","i","j","k","l","m",
               "n","o","p","q","r","s","t","u","v","w","x","y","z">>

\* SQLite folds the case of ASCII letters only
Lower(c) == IF \E i \in 1..26 : UpperCase[i] = c
            THEN LowerCase[CHOOSE i \in 1..26 : UpperCase[i] = c]
            ELSE c

\* SQLite's LIKE: % matches any run of characters, _ any one character,
\* anything else itself up to ASCII case; there is no escape character.
RECURSIVE LikeFrom(_, _, _, _)
LikeFrom(p, i, s, j) ==
  IF i > Len(p) THEN j > Len(s)
  ELSE IF p[i] = "%" THEN \E k \in j..(Len(s) + 1) : LikeFrom(p, i + 1, s, k)
  ELSE IF j > Len(s) THEN FALSE
  ELSE IF p[i] = "_" THEN LikeFrom(p, i + 1, s, j + 1)
  ELSE Lower(p[i]) = Lower(s[j]) /\ LikeFrom(p, i + 1, s, j + 1)

Like(s, p) == LikeFrom(p, 1, s, 1)

\* f'%{q}%'
sanitized_q(q) == <<"%">> \o Str(q) \o <<"%">>

-----------------------------------------------------------------------------
(* The table *)

Row(id, title, url, source, node) ==
  [id |-> id, title |-> title, url |-> url, source |-> source, node |-> node]

HasUrl(table, url) == \E i \in 1..Len(table) : table[i].url = url

\* the rowid SQLite gives a new row: one more than the largest rowid
NextId(table) == IF table = <<>> THEN 1 ELSE table[Len(table)].id + 1

\* a plain INSERT with the UNIQUE constraint switched off
InsertAlways(table, title, url, source, node) ==
  Append(table, Row(NextId(table), title, url, source, node))

RECURSIVE WithoutUrl(_, _)
WithoutUrl(table, url) ==
  IF table = <<>> THEN <<>>
  ELSE IF Head(table).url = url THEN WithoutUrl(Tail(table), url)
  ELSE <<Head(table)>> \o WithoutUrl(Tail(table), url)

\* INSERT OR REPLACE: the row holding the url is deleted, the new one appended
InsertOrReplace(table, title, url, source, node) ==
  LET kept == WithoutUrl(table, url)
  IN  Append(kept, Row(NextId(table), title, url, source, node))

\* INSERT OR IGNORE INTO textures (title, url, source), url being UNIQUE
InsertOrIgnore(table, title, url, source, node) ==
  IF HasUrl(table, url) THEN table
  ELSE Append(table, Row(NextId(table), title, url, source, node))

\* INSERT INTO textures (title, url) with IntegrityError caught: skip duplicates
InsertSkipDuplicate(table, title, url, node) ==
  IF HasUrl(table, url) THEN table
  ELSE Append(table, Row(NextId(table), title, url, "", node))

Take(s, n) == SubSeq(s, 1, IF Len(s) < n THEN Len(s) ELSE n)

RECURSIVE SelectLike(_, _)
SelectLike(table, p) ==
  IF table = <<>> THEN <<>>
  ELSE (IF Like(Head(table).title, p) THEN <<Head(table)>> ELSE <<>>)
       \o SelectLike(Tail(table), p)

\* the columns a query returns
Columns(rows) == [i \in 1..Len(rows) |->
                    [title |-> rows[i].title, url |-> rows[i].url, source |-> rows[i].source]]

-----------------------------------------------------------------------------
(* The sources and the pages they can serve *)

Https == <<"h","t","t","p","s",":","/","/">>
AmbientBase == Https \o <<"a","m","b","i","e","n","t","c","g",".","c","o","m">>
PolyBase == Https \o <<"p","o","l","y","h","a","v","e","n",".","c","o","m">>
TexturesBase ==
  Https \o <<"w","w","w",".","t","e","x","t","u","r","e","s",".","c","o","m">>

\* rule "h3"/"h2": the title is the stripped text of that child element;
\* rule "title": the title is the element's title attribute
SOURCES ==
  << [name |-> "AmbientCG", base |-> AmbientBase, rule |-> "h3"],
     [name |-> "Poly Haven", base |-> PolyBase, rule |-> "h2"],
     [name |-> "Textures.com (PBR)", base |-> TexturesBase, rule |-> "title"] >>

\* the one source of texture_search_app.py
CARD_SOURCE == [name |-> "", base |-> AmbientBase, rule |-> ".CardTitle"]

NSources == IF variant = "multi" THEN Len(SOURCES) ELSE 1

\* An element the selector returns.  text: the text of its title element (h3,
\* h2, .CardTitle) or the value of its title attribute, None when the page
\* has no such element or attribute.  href: its href attribute, None when absent.
Node(text, href) == [text |-> text, href |-> href]

\* item.find('h3') is None on an element without the child, and
\* None.get_text raises AttributeError
get_title_raises(src, item) == src.rule \in {"h3", "h2"} /\ item.text = None

get_title(src, item) == IF src.rule = "title" THEN item.text ELSE Strip(item.text)

\* f"https://ambientcg.com{item.get('href')}"
get_url(src, item) == src.base \o Str(item.href)

RECURSIVE Bits(_)
Bits(i) == IF i < 2 THEN <<IF i = 1 THEN "1" ELSE "0">>
           ELSE Bits(i \div 2) \o <<IF i % 2 = 1 THEN "1" ELSE "0">>

AmbientPages ==
  << << Node(<<"R","e","d">>, <<"/","a">>),
        Node(None, <<"/","b">>),
        Node(<<" ","A","b"," ">>, <<"/","a">>),
        Node(<<>>, <<"/","c">>),
        Node(<<"x","_">>, None) >>,
     << Node(<<"B","l">>, <<"/","a">>),
        Node(<<"r","e","d">>, <<"/","d">>) >> >>

PolyPages ==
  << << Node(<<"R","e","d">>, <<"/","a">>),
        Node(<<" ">>, <<"/","e">>) >> >>

TexturesPages ==
  << << Node(None, <<"/","f">>),
        Node(<<"r","e">>, <<"/","g">>) >> >>

\* a page of LIMIT_SINGLE + Extra cards, all with a title beginning with Re
BigPage == [i \in 1..(LIMIT_SINGLE + Extra) |->
              Node(<<"R","e">> \o Bits(i), <<"/">> \o Bits(i))]

CardPages ==
  << << Node(<<"R","e","d">>, <<"/","a">>),
        Node(None, <<"/","b">>),
        Node(<<>>, <<"/","c">>),
        Node(<<"x">>, None),
        Node(<<"r","E","d">>, <<"/","a">>) >>,
     BigPage,
     << >> >>

\* the pages source i can answer with
Pages(i) == IF variant = "single" THEN CardPages
            ELSE IF i = 1 THEN AmbientPages
            ELSE IF i = 2 THEN PolyPages
            ELSE TexturesPages

\* storage faults of one source's pass: 0 none, k > 0 the k-th INSERT raises,
\* -1 the commit raises
Faults == (0 - 1)..MaxFaultPos
NoFault(f) == f = 0
CommitFault(f) == f = 0 - 1
InsertFault(f) == f > 0

-----------------------------------------------------------------------------
(* The extraction loops *)

Acc0(table) == [table |-> table, count |-> 0, calls |-> 0, raised |-> 0,
                aborted |-> FALSE, ignored |-> <<>>]

\* app.py, the loop over items: lines 80-92
RECURSIVE ItemLoop(_, _, _, _, _)
ItemLoop(src, items, k, fault, acc) ==
  IF k > Len(items) THEN acc
  ELSE LET item == items[k] IN
    IF get_title_raises(src, item)
    THEN ItemLoop(src, items, k + 1, fault, acc)
    ELSE LET title == get_title(src, item)
             item_url == get_url(src, item)
         IN IF Truthy(title) /\ Truthy(item_url) /\ StartsWithHttp(item_url)
            THEN IF fault = acc.calls + 1
                 THEN ItemLoop(src, items, k + 1, fault,
                        [acc EXCEPT !.calls = @ + 1, !.raised = k])
                 ELSE ItemLoop(src, items, k + 1, fault,
                        [acc EXCEPT
                           !.calls = @ + 1,
                           !.table = InsertOrIgnore(@, title, item_url, src.name, item),
                           !.ignored = IF HasUrl(acc.table, item_url)
                                       THEN Append(@, [title |-> title, url |-> item_url])
                                       ELSE @,
                           !.count = @ + 1])
            ELSE ItemLoop(src, items, k + 1, fault, acc)

\* texture_search_app.py, the loop over items: lines 31-41
RECURSIVE CardLoop(_, _, _, _)
CardLoop(items, k, fault, acc) ==
  IF k > Len(items) \/ acc.aborted THEN acc
  ELSE LET item == items[k] IN
    IF item.text # None
    THEN LET title == Strip(item.text)
             link == item.href
         IN IF Truthy(link)
            THEN LET full_link == CARD_SOURCE.base \o link IN
                 IF fault = acc.calls + 1
                 THEN CardLoop(items, k + 1, fault,
                        [acc EXCEPT !.calls = @ + 1, !.raised = k, !.aborted = TRUE])
                 ELSE CardLoop(items, k + 1, fault,
                        [acc EXCEPT
                           !.calls = @ + 1,
                           !.table = InsertSkipDuplicate(@, title, full_link, item),
                           !.ignored = IF HasUrl(acc.table, full_link)
                                       THEN Append(@, [title |-> title, url |-> full_link])
                                       ELSE @,
                           !.count = IF HasUrl(acc.table, full_link) THEN @ ELSE @ + 1])
            ELSE CardLoop(items, k + 1, fault, acc)
    ELSE CardLoop(items, k + 1, fault, acc)

-----------------------------------------------------------------------------
(* The state *)

NoResp == [kind |-> "none", q |-> None, rows |-> <<>>, n |-> 0]

\* nothing printed yet for a source
Todo == [status |-> "todo", count |-> 0, new |-> 0, raised |-> 0, ignored |-> <<>>]

NoLog == [page |-> 0, fault |-> 0]

Init ==
  /\ variant \in {"multi", "single"}
  /\ pc = "start"
  /\ runs = 1
  /\ schema = FALSE
  /\ store = <<>>
  /\ work = <<>>
  /\ idx = 1
  /\ total_added = 0
  /\ report = [i \in 1..NSources |-> Todo]
  /\ resp = NoResp
  /\ log = [i \in 1..NSources |-> NoLog]
  /\ prevlog = [i \in 1..NSources |-> NoLog]

\* every source was fetched and no storage fault hit the run
CleanRun == \A i \in 1..NSources : log[i].page # 0 /\ NoFault(log[i].fault)

\* requests served while the crawl is still running
CanServeEarly == pc \in {"crawl", "serving"}

\* requests are served once startup has run: lifespan yields after the crawl,
\* and __main__ calls uvicorn.run after crawl_ambientcg
CanServe == pc = "serving"

-----------------------------------------------------------------------------
(* Startup *)

\* setup_database of app.py and the module-level code of texture_search_app.py:
\* CREATE TABLE IF NOT EXISTS, followed by the connect of the crawl.  A storage
\* error here is not caught by anything: the process does not start.
setup_database ==
  /\ pc = "start"
  /\ \E ok \in BOOLEAN :
       IF ok
       THEN /\ schema' = TRUE
            /\ pc' = "crawl"
       ELSE /\ schema' = schema
            /\ pc' = "crashed"
  /\ UNCHANGED <<variant, runs, store, work, idx, total_added, report, resp, log, prevlog>>

\* one pass of the loop over SOURCES in crawl_and_index_all_sources; the pass
\* over the last source is followed by conn.close() and the return to lifespan
crawl_and_index_all_sources ==
  /\ variant = "multi"
  /\ pc = "crawl"
  /\ idx <= Len(SOURCES)
  /\ \E p \in 0..Len(Pages(idx)), fault \in Faults :
       LET src == SOURCES[idx]
           acc == IF p = 0 THEN Acc0(work)
                  ELSE ItemLoop(src, Pages(idx)[p], 1, fault, Acc0(work))
           committed == p # 0 /\ ~CommitFault(fault)
           after == IF committed THEN acc.table ELSE store
           last == idx = Len(SOURCES)
       IN /\ p = 0 => NoFault(fault)
          /\ InsertFault(fault) => acc.raised # 0
          /\ store' = after
          /\ work' = IF last THEN after ELSE acc.table
          /\ total_added' = IF committed THEN total_added + acc.count ELSE total_added
          /\ report' = [report EXCEPT ![idx] =
                          [status |-> IF p = 0 THEN "fetch_failed"
                                      ELSE IF committed THEN "ok" ELSE "error",
                           count |-> acc.count,
                           new |-> Len(acc.table) - Len(work),
                           raised |-> acc.raised,
                           ignored |-> acc.ignored]]
          /\ log' = [log EXCEPT ![idx] = [page |-> p, fault |-> fault]]
          /\ idx' = idx + 1
          /\ pc' = IF last THEN "serving" ELSE "crawl"
  /\ UNCHANGED <<variant, runs, schema, resp, prevlog>>

\* crawl_ambientcg, called by __main__ before uvicorn.run
crawl_ambientcg ==
  /\ variant = "single"
  /\ pc = "crawl"
  /\ \E p \in 0..Len(Pages(1)), fault \in Faults :
       LET acc == IF p = 0 THEN Acc0(work)
                  ELSE CardLoop(Pages(1)[p], 1, fault, Acc0(work))
           committed == p # 0 /\ ~CommitFault(fault) /\ ~acc.aborted
       IN /\ p = 0 => NoFault(fault)
          /\ InsertFault(fault) => acc.raised # 0
          /\ store' = IF committed THEN acc.table ELSE store
          /\ work' = acc.table
          /\ report' = [report EXCEPT ![1] =
                          [status |-> IF committed THEN "ok" ELSE "failed",
                           count |-> acc.count,
                           new |-> Len(acc.table) - Len(work),
                           raised |-> acc.raised,
                           ignored |-> acc.ignored]]
          /\ log' = [log EXCEPT ![1] = [page |-> p, fault |-> fault]]
          /\ idx' = idx + 1
          /\ pc' = "serving"
  /\ UNCHANGED <<variant, runs, schema, total_added, resp, prevlog>>

-----------------------------------------------------------------------------
(* Requests *)

\* the values of the parameter q
Queries == IF variant = "multi" THEN { None, <<"R","E">>, <<"_">>, <<"z">> }
           ELSE { <<>>, <<"R","E">>, <<"_">>, <<"z">> }

Html(q, rows) == [kind |-> "html", q |-> q, rows |-> Columns(rows), n |-> 0]

ServerError == [kind |-> "error", q |-> None, rows |-> <<>>, n |-> 0]

\* GET / of app.py, on a connection of its own
home ==
  /\ variant = "multi"
  /\ CanServe
  /\ \E q \in Queries, ok \in BOOLEAN :
       resp' = IF ~ok THEN ServerError
               ELSE IF Truthy(q)
               THEN Html(q, Take(SelectLike(store, sanitized_q(q)), LIMIT_MULTI))
               ELSE Html(q, Take(store, LIMIT_MULTI))
  /\ UNCHANGED <<variant, pc, runs, schema, store, work, idx, total_added, report, log, prevlog>>

\* GET / of texture_search_app.py, on the module's cursor (the crawl's own)
search ==
  /\ variant = "single"
  /\ CanServe
  /\ \E q \in Queries, ok \in BOOLEAN :
       resp' = IF ~ok THEN ServerError
               ELSE IF Truthy(q)
               THEN Html(q, SelectLike(work, sanitized_q(q)))
               ELSE Html(q, Take(work, LIMIT_SINGLE))
  /\ UNCHANGED <<variant, pc, runs, schema, store, work, idx, total_added, report, log, prevlog>>

\* GET /status of app.py
status ==
  /\ variant = "multi"
  /\ CanServe
  /\ \E ok \in BOOLEAN :
       resp' = IF ok THEN [kind |-> "status", q |-> None, rows |-> <<>>, n |-> Len(store)]
               ELSE ServerError
  /\ UNCHANGED <<variant, pc, runs, schema, store, work, idx, total_added, report, log, prevlog>>

\* the process ends and is started again on the same DATABASE_FILE: what was
\* committed is kept, everything in memory (the open transaction too) is gone
Restart ==
  /\ pc \in {"serving", "crashed"}
  /\ runs < MaxRuns
  /\ runs' = runs + 1
  /\ pc' = "start"
  /\ work' = store
  /\ idx' = 1
  /\ total_added' = 0
  /\ report' = [i \in 1..NSources |-> Todo]
  /\ resp' = NoResp
  /\ prevlog' = IF CleanRun THEN log ELSE [i \in 1..NSources |-> NoLog]
  /\ log' = [i \in 1..NSources |-> NoLog]
  /\ UNCHANGED <<variant, schema, store>>

Next ==
  \/ setup_database
  \/ crawl_and_index_all_sources
  \/ crawl_ambientcg
  \/ home
  \/ search
  \/ status
  \/ Restart

Spec == Init /\ [][Next]_vars

-----------------------------------------------------------------------------
(* Vocabulary of the properties *)

Src(i) == IF variant = "multi" THEN SOURCES[i] ELSE CARD_SOURCE

\* the table a request reads
Visible == IF variant = "multi" THEN store ELSE work

Cap == IF variant = "multi" THEN LIMIT_MULTI ELSE LIMIT_SINGLE

\* a candidate the specification accepts: a title that is present and not
\* empty, and a link that is present
ValidCandidate(item) ==
  /\ item.text # None
  /\ Strip(item.text) # <<>>
  /\ item.href # None

\* the canonical URL of a candidate with a link
CandidateUrl(i, item) == Src(i).base \o item.href

\* q occurs in title as a literal substring, up to ASCII case
ContainsCI(title, q) ==
  \E k \in 0..(Len(title) - Len(q)) :
    \A m \in 1..Len(q) : Lower(title[k + m]) = Lower(q[m])

Settled == idx > NSources /\ \A i \in 1..NSources : report[i].status # "todo"

-----------------------------------------------------------------------------
(* The claims *)

\* C1: no two distinct stored records have the same url, whatever runs and
\* pages came before; the same holds of the rows of the open transaction.
UrlUnique ==
  /\ \A i, j \in 1..Len(store) : i # j => store[i].url # store[j].url
  /\ \A i, j \in 1..Len(work) : i # j => work[i].url # work[j].url

\* C1, its case: a run met a URL that was already in the table, and the
\* store holds several records.
UrlUniqueWitness ==
  /\ Len(store) >= 2
  /\ \E i \in 1..NSources : report[i].ignored # <<>>

\* C2: a second run over the same pages, every fetch succeeding, computes
\* total_added = 0 and a count of 0 for every source.
RerunAddsNothing ==
  (/\ variant = "multi"
   /\ pc = "serving"
   /\ runs >= 2
   /\ CleanRun
   /\ prevlog = log)
  => /\ total_added = 0
     /\ \A i \in 1..NSources : report[i].count = 0

\* C3: with some fetches failing (and the storage sound), a failed source
\* contributes no record, and every other source is reported successful with
\* all its valid candidates committed and an added count equal to the number
\* of records newly inserted for it.
FailureIsolation ==
  (/\ variant = "multi"
   /\ pc = "serving"
   /\ \A i \in 1..NSources : NoFault(log[i].fault))
  => \A i \in 1..NSources :
       IF log[i].page = 0
       THEN report[i].status = "fetch_failed" /\ report[i].new = 0
       ELSE /\ report[i].status = "ok"
            /\ \A k \in 1..Len(Pages(i)[log[i].page]) :
                 LET item == Pages(i)[log[i].page][k]
                 IN ValidCandidate(item) => HasUrl(store, CandidateUrl(i, item))
            /\ report[i].count = report[i].new

\* C4: the store of the multi-source app holds no record that came from a
\* candidate with an empty or missing title, with a missing href, or with a
\* URL that does not begin with http.
NoInvalidStored ==
  variant = "multi" =>
    \A j \in 1..Len(store) :
      /\ store[j].node.text # None
      /\ store[j].title # <<>>
      /\ store[j].node.href # None
      /\ StartsWithHttp(store[j].url)

\* C5: a search for a non-empty q returns only records whose title contains q
\* as a literal substring (up to case), and, short of the cap, all of them
\* (stated for runs the storage did not fail in).
SearchIsLiteral ==
  (/\ resp.kind = "html"
   /\ Truthy(resp.q)
   /\ \A i \in 1..NSources : NoFault(log[i].fault))
  => /\ \A j \in 1..Len(resp.rows) : ContainsCI(resp.rows[j].title, resp.q)
     /\ \A j \in 1..Len(Visible) :
          ContainsCI(Visible[j].title, resp.q)
          => \/ Len(resp.rows) >= Cap
             \/ \E m \in 1..Len(resp.rows) : resp.rows[m].url = Visible[j].url

\* C6: the listing and the title search return no more records than the cap:
\* 50 in the multi-source app, 20 in the single-source app (stated for runs
\* the storage did not fail in).
ResultsCapped ==
  (resp.kind = "html" /\ \A i \in 1..NSources : NoFault(log[i].fault))
  => Len(resp.rows) <= Cap

\* C7: a request is served only when the schema exists and every source of
\* the ingestion pass is settled, and nothing is written to the store once
\* the process serves.
StartupBeforeServing ==
  /\ [](resp # NoResp => pc = "serving" /\ schema /\ Settled)
  /\ [][pc = "serving" => store' = store]_vars

\* C7, its case: a request was answered after a pass in which one source
\* failed and another committed records.
StartupBeforeServingWitness ==
  /\ resp.kind = "html"
  /\ Len(store) > 0
  /\ \E i \in 1..NSources : report[i].status = "fetch_failed"

\* C8: a storage error during a run propagates out of the run: no run that
\* met one goes on to report completion and serve.
StorageErrorsPropagate ==
  pc = "serving" => \A i \in 1..NSources : NoFault(log[i].fault)

\* C9: when one candidate of a source raises (title rule or insert), every
\* other valid candidate of that source is inserted and committed.
CandidateIsolation ==
  pc = "serving" =>
    \A i \in 1..NSources :
      (log[i].page # 0 /\ ~CommitFault(log[i].fault))
      => \A k \in 1..Len(Pages(i)[log[i].page]) :
           LET item == Pages(i)[log[i].page][k]
           IN (k # report[i].raised /\ ValidCandidate(item))
              => HasUrl(store, CandidateUrl(i, item))

\* C10: a committed record keeps its place, id, title, url and source in every
\* later state, and a request leaves the store and the open transaction as
\* they are.
RecordsImmutable ==
  [][/\ \A i \in 1..Len(store) : i <= Len(store') /\ store'[i] = store[i]
     /\ (pc = "serving" /\ pc' = "serving") => (store' = store /\ work' = work)]_vars

\* C10, its case: a candidate was ingested whose url is stored under another
\* title, and a request has been served since.
RecordsImmutableWitness ==
  /\ resp # NoResp
  /\ \E i \in 1..NSources : \E k \in 1..Len(report[i].ignored) :
       \E j \in 1..Len(store) :
         /\ store[j].url = report[i].ignored[k].url
         /\ store[j].title # report[i].ignored[k].title

====
